---- MODULE Spec2Model ----
(***************************************************************************)
(* Model of the retrieval-and-grounding core of medintel-rag-chatbot:      *)
(* VectorStore (src/src/vector_store.py), RAGPipeline                      *)
(* (src/src/rag_pipeline.py), MedicalDocument (src/src/data_ingestion.py), *)
(* QdrantVectorStore (src/src/vector_store_qdrant.py) and the POST /query  *)
(* endpoint (src/src/api.py, src/src/models.py).                           *)
(*                                                                         *)
(* Numbers: a cosine score or a threshold is an integer number of          *)
(* hundredths (80 stands for 0.80).  Embeddings are integer vectors of     *)
(* Euclidean length 5, so a stored vector is unit-normalised after         *)
(* division by 5 and an inner product of two of them, times 4, is the      *)
(* cosine in hundredths.  A confidence is an exact fraction num/den of     *)
(* hundredths.  Texts are sequences of one-character strings; generated    *)
(* answers are sequences of phrases.                                       *)
(***************************************************************************)
EXTENDS Integers, Sequences, FiniteSets, TLC

VARIABLES
    dimension,             \* VectorStore.dimension: the output dimension of its embedding model
    index_d,               \* VectorStore.index.d: the dimension of the FAISS index
    op,                    \* the last call made on the store or change made to its directory
    chunk_size,            \* VectorStore.chunk_size
    chunk_overlap,         \* VectorStore.chunk_overlap
    index,                 \* VectorStore.index: the vectors of the FAISS index, in insertion order
    documents,             \* VectorStore.documents: the chunk records
    disk,                  \* the save directory: its three files, each <<>> (absent) or <<content>>
    storeErr,              \* the exception the last store operation raised, "none" if it returned
    adds,                  \* number of add_documents calls so far
    sres,                  \* the last direct search call on the store: <<>> or <<[query, top_k, ...]>>
    confidence_threshold,  \* RAGPipeline.confidence_threshold
    qpc,                   \* position of the query() in flight
    question,              \* query(): question
    k,                     \* query(): k
    retrieved,             \* query(): retrieved_docs
    context,               \* query(): context, the block of numbered fragments of the prompt
    answer,                \* query(): answer
    genFailed,             \* whether the generation capability raised in this query
    genMs,                 \* query(): generation_time
    confidence,            \* query(): confidence
    response,              \* what query() returned: <<>> or <<QueryResponse>>
    calls,                 \* the calls query() has made so far, in order
    wpc,                   \* writer thread: position inside add_documents / load
    wbatch,                \* writer thread: the chunk records of the add in progress
    wwrite,                \* the write in progress: <<>> or <<[pre, post]>>, the store states around it
    rpc,                   \* reader thread: position inside search
    rargs,                 \* reader thread: the arguments of its search
    rhits,                 \* reader thread: what index.search returned
    rresult,               \* reader thread: what search returned
    views,                 \* the store states that existed, whole, while the reader's search ran
    rag_pipeline,          \* api.py: whether the global rag_pipeline is set (the lifespan succeeded)
    http,                  \* the POST /query in flight: <<>> or <<[payload, status, body]>>
    mdocs,                 \* the MedicalDocument objects constructed so far, in order
    cres,                  \* the last direct _chunk_documents call: <<>> or <<[documents, chunks]>>
    collection,            \* QdrantVectorStore: the points of its collection; the point of id i is collection[i + 1]
    qcalls                 \* the lists of documents passed to QdrantVectorStore.add_documents so far

storeVars == <<dimension, index_d, op, chunk_size, chunk_overlap, index, documents, disk, storeErr, adds>>
queryVars == <<qpc, question, k, retrieved, context, answer, genFailed, genMs, confidence, response, calls>>
concVars  == <<wpc, wbatch, wwrite, rpc, rargs, rhits, rresult, views>>
apiVars == <<rag_pipeline, http>>
ingestVars == <<mdocs, cres>>
qdrantVars == <<collection, qcalls>>
sideVars == <<apiVars, ingestVars, qdrantVars>>
vars == <<storeVars, sres, confidence_threshold, queryVars, concVars, sideVars>>

(***************************************************************************)
(* Bounds of the model.                                                    *)
(***************************************************************************)
MaxAdds == 2       \* add_documents calls in one run

(***************************************************************************)
(* Numbers.                                                                *)
(***************************************************************************)
One == 4 * 25                    \* the score 1.0, in hundredths
PadScore == -(340 * One)         \* stands for -3.4e38, the score FAISS reports in a slot with no neighbour

RECURSIVE SumSeq(_)
SumSeq(s) == IF s = <<>> THEN 0 ELSE Head(s) + SumSeq(Tail(s))

Min(a, b) == IF a <= b THEN a ELSE b

(***************************************************************************)
(* Texts and the embedding function.                                       *)
(***************************************************************************)
CharCode(c) == IF c = "a" THEN 1 ELSE IF c = "b" THEN 2 ELSE 0

RECURSIVE Weight(_)
Weight(t) == IF t = <<>> THEN 0 ELSE CharCode(Head(t)) + Weight(Tail(t))

\* The output dimension of the default embedding model (all-MiniLM-L6-v2) and of
\* another model a deployment may name in embedding_model_name.
MiniLMDim == 2
OtherDim == 3

\* The unit vectors (times 5) the default embedding model produces.
UnitVectors == << <<-5, 0>>, <<5, 0>>, <<3, 4>>, <<4, 3>>, <<0, 5>>, <<-3, 4>> >>

\* The unit vectors (times 5) the other embedding model produces.
OtherUnitVectors ==
    << <<0, 0, 5>>, <<3, 4, 0>>, <<0, 3, 4>>, <<4, 0, 3>>, <<0, -5, 0>>, <<-3, 0, 4>> >>

\* SentenceTransformer.encode(text, normalize_embeddings=True) by the model of
\* the store: a deterministic function of the text whose value has L2 norm 1.
Embed(t) ==
    IF dimension = MiniLMDim
    THEN UnitVectors[(Weight(t) % Len(UnitVectors)) + 1]
    ELSE OtherUnitVectors[(Weight(t) % Len(OtherUnitVectors)) + 1]

\* Inner product of two vectors of the same dimension, MiniLMDim or OtherDim
Dot(u, v) ==
    IF Len(u) = MiniLMDim
    THEN u[1] * v[1] + u[2] * v[2]
    ELSE u[1] * v[1] + u[2] * v[2] + u[3] * v[3]

\* Inner product of two normalised vectors of the same dimension, in hundredths.
Score(u, v) == 4 * Dot(u, v)

(***************************************************************************)
(* MedicalDocument.                                                        *)
(***************************************************************************)
HashPrefixLen == 500

Prefix(t, n) == SubSeq(t, 1, Min(Len(t), n))

\* The digest computed from the title and the whole content.
GenerateDocIdWholeContent(content, title) == [kind |-> "md5", key |-> <<title, content>>]

\* _generate_doc_id: a digest of "title:content[:500]"; the digest is modelled
\* by the pair it is computed from.
GenerateDocId(content, title) == [kind |-> "md5", key |-> <<title, Prefix(content, HashPrefixLen)>>]

GivenDocId(id) == [kind |-> "given", key |-> <<id, <<>>>>]

\* MedicalDocument.__init__(content, title, source, doc_id, year) run at the
\* time `now`; doc_id is <<>> (None) or <<id>>, and `doc_id or ...` takes the
\* generated id for None and for the empty string.
MedicalDocumentInit(content, title, source, doc_id, year, now) ==
    [doc_id |-> IF doc_id = <<>> \/ doc_id[1] = ""
                THEN GenerateDocId(content, title) ELSE GivenDocId(doc_id[1]),
     content |-> content, title |-> title, source |-> source, year |-> year,
     processed_at |-> now]

\* MedicalDocument.__init__ without / with an explicit doc_id.
MedicalDocument(content, title, source, year) ==
    [doc_id |-> GenerateDocId(content, title), content |-> content, title |-> title,
     source |-> source, year |-> year]

MedicalDocumentWithId(content, title, source, id, year) ==
    [doc_id |-> GivenDocId(id), content |-> content, title |-> title,
     source |-> source, year |-> year]

DocAnemia == MedicalDocument(<<"a", "b", "b", "a">>, "Anemia", "sample", "2022")
DocAsthma == MedicalDocument(<<"b", "a", "b">>, "Asthma", "sample", "2022")
DocPubMed == MedicalDocumentWithId(<<"a", "a", "b">>, "Abstract", "PubMed", "PMID_1", "2020")

\* The lists of documents the callers pass to add_documents.
Batches == { <<DocAnemia>>, <<DocAsthma, DocPubMed>>, <<DocPubMed>> }

Questions == { <<"a">>, <<"b">>, <<"a", "b">> }

(***************************************************************************)
(* The text splitter, RecursiveCharacterTextSplitter(chunk_size,           *)
(* chunk_overlap, length_function=len, separators=["\n\n", "\n", ". ",     *)
(* " ", ""]) with the defaults keep_separator=True and                     *)
(* strip_whitespace=True.  The texts of the model are made of letters and  *)
(* spaces, so the first separator found in a text is " " or, in a text     *)
(* without spaces, "".                                                     *)
(***************************************************************************)
RECURSIVE Concat(_)
Concat(ss) == IF ss = <<>> THEN <<>> ELSE Head(ss) \o Concat(Tail(ss))

TotalLen(ss) == Len(Concat(ss))

\* str.strip(): the text without its leading and trailing whitespace
RECURSIVE StripLeft(_)
StripLeft(t) == IF t # <<>> /\ Head(t) = " " THEN StripLeft(Tail(t)) ELSE t

RECURSIVE StripRight(_)
StripRight(t) ==
    IF t # <<>> /\ t[Len(t)] = " " THEN StripRight(SubSeq(t, 1, Len(t) - 1)) ELSE t

Strip(t) == StripRight(StripLeft(t))

\* _join_docs(docs, separator) for the separator "": the joined text, stripped;
\* <<>> stands for None, which is not emitted
JoinDocs(cur) == Strip(Concat(cur))

\* The while loop without its second condition: splits are dropped for the
\* overlap only, not to make room for the next split.
RECURSIVE PopFrontOverlapOnly(_, _, _, _)
PopFrontOverlapOnly(cur, len, size, overlap) ==
    IF TotalLen(cur) > overlap
    THEN PopFrontOverlapOnly(Tail(cur), len, size, overlap)
    ELSE cur

\* The while loop of _merge_splits: drop splits from the front of the current
\* chunk until at most `overlap` characters are kept and the next split fits.
RECURSIVE PopFront(_, _, _, _)
PopFront(cur, len, size, overlap) ==
    IF TotalLen(cur) > overlap \/ (TotalLen(cur) + len > size /\ TotalLen(cur) > 0)
    THEN PopFront(Tail(cur), len, size, overlap)
    ELSE cur

MergeStep(st, d, size, overlap) ==
    IF TotalLen(st.cur) + Len(d) > size
    THEN IF Len(st.cur) > 0
         THEN [docs |-> IF JoinDocs(st.cur) # <<>> THEN Append(st.docs, JoinDocs(st.cur)) ELSE st.docs,
               cur  |-> Append(PopFront(st.cur, Len(d), size, overlap), d)]
         ELSE [docs |-> st.docs, cur |-> Append(st.cur, d)]
    ELSE [docs |-> st.docs, cur |-> Append(st.cur, d)]

RECURSIVE MergeLoop(_, _, _, _)
MergeLoop(st, splits, size, overlap) ==
    IF splits = <<>> THEN st
    ELSE MergeLoop(MergeStep(st, Head(splits), size, overlap), Tail(splits), size, overlap)

MergeSplits(splits, size, overlap) ==
    LET st == MergeLoop([docs |-> <<>>, cur |-> <<>>], splits, size, overlap)
    IN  IF JoinDocs(st.cur) # <<>> THEN Append(st.docs, JoinDocs(st.cur)) ELSE st.docs

HasSpace(text) == \E i \in 1..Len(text) : text[i] = " "

\* The index of the first space of text at or after position 2, Len(text) + 1 if none
NextSpace(text) ==
    IF \E i \in 2..Len(text) : text[i] = " "
    THEN CHOOSE i \in 2..Len(text) : text[i] = " " /\ \A j \in 2..(i - 1) : text[j] # " "
    ELSE Len(text) + 1

\* _split_text_with_regex(text, " ", keep_separator=True): the text cut before
\* every space, each space kept at the start of the piece that follows it
RECURSIVE SplitKeepSeparator(_)
SplitKeepSeparator(text) ==
    IF text = <<>> THEN <<>>
    ELSE <<SubSeq(text, 1, NextSpace(text) - 1)>>
             \o SplitKeepSeparator(SubSeq(text, NextSpace(text), Len(text)))

\* _split_text_with_regex(text, "", ...): list(text)
SplitChars(text) == [i \in 1..Len(text) |-> <<text[i]>>]

Flush(good, final, size, overlap) ==
    IF good # <<>> THEN final \o MergeSplits(good, size, overlap) ELSE final

\* The loop of _split_text over the splits when no separator is left
\* (new_separators is empty): a split of chunk_size or more is a chunk as it is
RECURSIVE SplitLoopLast(_, _, _, _, _)
SplitLoopLast(splits, good, final, size, overlap) ==
    IF splits = <<>> THEN Flush(good, final, size, overlap)
    ELSE IF Len(Head(splits)) < size
         THEN SplitLoopLast(Tail(splits), Append(good, Head(splits)), final, size, overlap)
         ELSE SplitLoopLast(Tail(splits), <<>>,
                            Append(Flush(good, final, size, overlap), Head(splits)), size, overlap)

\* _split_text(text, [""])
SplitTextChars(text, size, overlap) ==
    SplitLoopLast(SplitChars(text), <<>>, <<>>, size, overlap)

\* The loop of _split_text over the splits at " ": a split of chunk_size or
\* more is split again with the separators that are left, [""]
RECURSIVE SplitLoop(_, _, _, _, _)
SplitLoop(splits, good, final, size, overlap) ==
    IF splits = <<>> THEN Flush(good, final, size, overlap)
    ELSE IF Len(Head(splits)) < size
         THEN SplitLoop(Tail(splits), Append(good, Head(splits)), final, size, overlap)
         ELSE SplitLoop(Tail(splits), <<>>,
                        Flush(good, final, size, overlap)
                            \o SplitTextChars(Head(splits), size, overlap), size, overlap)

\* text_splitter.split_text(text)
SplitText(text, size, overlap) ==
    IF HasSpace(text)
    THEN SplitLoop(SplitKeepSeparator(text), <<>>, <<>>, size, overlap)
    ELSE SplitTextChars(text, size, overlap)

(***************************************************************************)
(* VectorStore.                                                            *)
(***************************************************************************)
ChunkId(doc_id, i) == [doc_id |-> doc_id, chunk |-> i]

\* The chunk records of one document, numbered from 1.
ChunkOneFromOne(doc, size, overlap) ==
    LET chunks == SplitText(doc.content, size, overlap)
    IN  [i \in 1..Len(chunks) |->
            [doc_id |-> doc.doc_id, chunk_id |-> ChunkId(doc.doc_id, i),
             content |-> chunks[i], title |-> doc.title, source |-> doc.source,
             year |-> doc.year, chunk_index |-> i, total_chunks |-> Len(chunks)]]

\* The loop of _chunk_documents over the chunks of one document
ChunkOne(doc, size, overlap) ==
    LET chunks == SplitText(doc.content, size, overlap)
    IN  [i \in 1..Len(chunks) |->
            [doc_id |-> doc.doc_id, chunk_id |-> ChunkId(doc.doc_id, i - 1),
             content |-> chunks[i], title |-> doc.title, source |-> doc.source,
             year |-> doc.year, chunk_index |-> i - 1, total_chunks |-> Len(chunks)]]

RECURSIVE ChunkDocuments(_, _, _)
ChunkDocuments(docs, size, overlap) ==
    IF docs = <<>> THEN <<>>
    ELSE ChunkOne(Head(docs), size, overlap) \o ChunkDocuments(Tail(docs), size, overlap)

\* embedding_model.encode(texts, normalize_embeddings=True)
Encode(chunked) == [i \in 1..Len(chunked) |-> Embed(chunked[i].content)]

\* IndexFlatIP.search(q, n): the n entries of largest inner product, best first
\* (the earlier entry first among equals), then slots with label -1.
Better(vecs, q, i, j) ==
    \/ Score(vecs[i], q) > Score(vecs[j], q)
    \/ Score(vecs[i], q) = Score(vecs[j], q) /\ i <= j

Best(vecs, q, S) == CHOOSE i \in S : \A j \in S : Better(vecs, q, i, j)

RECURSIVE TopK(_, _, _, _)
TopK(vecs, q, n, S) ==
    IF n = 0 THEN <<>>
    ELSE IF S = {} THEN <<[score |-> PadScore, idx |-> -1]>> \o TopK(vecs, q, n - 1, S)
    ELSE LET b == Best(vecs, q, S)
         IN  <<[score |-> Score(vecs[b], q), idx |-> b - 1]>> \o TopK(vecs, q, n - 1, S \ {b})

IndexSearch(vecs, q, n) == TopK(vecs, q, n, 1..Len(vecs))

\* documents[idx] with Python's indexing: a negative idx counts from the end.
PyItem(docs, idx) == IF idx >= 0 THEN docs[idx + 1] ELSE docs[Len(docs) + idx + 1]

\* The filter without the threshold test.
KeepHitIgnoringThreshold(hit, docs, thr) == hit.idx < Len(docs)

\* The filter of search: if score >= score_threshold and idx < len(self.documents)
KeepHit(hit, docs, thr) == hit.score >= thr /\ hit.idx < Len(docs)

\* The loop of search that filters by threshold and formats the results.
RECURSIVE FilterHits(_, _, _)
FilterHits(hits, docs, thr) ==
    IF hits = <<>> THEN <<>>
    ELSE IF KeepHit(Head(hits), docs, thr)
         THEN <<[doc |-> PyItem(docs, Head(hits).idx), score |-> Head(hits).score]>>
                  \o FilterHits(Tail(hits), docs, thr)
         ELSE FilterHits(Tail(hits), docs, thr)

\* Whether the filter loop raises IndexError: it keeps a hit whose idx is no
\* index of documents.
FilterRaises(hits, docs, thr) ==
    \E i \in 1..Len(hits) :
        KeepHit(hits[i], docs, thr) /\ (hits[i].idx >= Len(docs) \/ hits[i].idx < -Len(docs))

\* Whether VectorStore.search raises on the store state (vecs, docs).
SearchRaisesOn(vecs, docs, query, top_k, thr) ==
    Len(docs) # 0 /\ FilterRaises(IndexSearch(vecs, Embed(query), top_k), docs, thr)

\* VectorStore.search on the store state (vecs, docs).
SearchOn(vecs, docs, query, top_k, thr) ==
    IF Len(docs) = 0 THEN <<>>
    ELSE FilterHits(IndexSearch(vecs, Embed(query), top_k), docs, thr)

Search(query, top_k, thr) == SearchOn(index, documents, query, top_k, thr)

(***************************************************************************)
(* The save directory.  Each file is <<>> (absent or unreadable) or        *)
(* <<content>>.  faiss.index holds the header of the index and its floats  *)
(* row after row; documents.pkl holds, for every chunk record, its items   *)
(* in the order of the dict.                                               *)
(***************************************************************************)
NoDisk == [dir |-> FALSE, faiss |-> <<>>, docs |-> <<>>, config |-> <<>>]

RECURSIVE Flatten(_)
Flatten(vecs) == IF vecs = <<>> THEN <<>> ELSE Head(vecs) \o Flatten(Tail(vecs))

\* faiss.write_index(self.index, path)
WriteIndex(d, vecs) ==
    [d |-> d, ntotal |-> Len(vecs), metric |-> "INNER_PRODUCT", xb |-> Flatten(vecs)]

\* The stored floats read column after column.
ReadIndexColumnMajor(file) ==
    IF file.ntotal = 0 THEN <<>>
    ELSE [i \in 1..file.ntotal |-> [j \in 1..file.d |-> file.xb[(j - 1) * file.ntotal + i]]]

\* faiss.read_index(path): the rows of the stored floats
ReadIndex(file) ==
    IF file.ntotal = 0 THEN <<>>
    ELSE [i \in 1..file.ntotal |-> SubSeq(file.xb, (i - 1) * file.d + 1, i * file.d)]

\* pickle.dump of one chunk record
PickleDumpChunk(c) ==
    << <<"doc_id", c.doc_id>>, <<"chunk_id", c.chunk_id>>, <<"content", c.content>>,
       <<"title", c.title>>, <<"source", c.source>>, <<"year", c.year>>,
       <<"chunk_index", c.chunk_index>>, <<"total_chunks", c.total_chunks>> >>

\* pickle.dump(self.documents, f)
PickleDump(docs) ==
    IF docs = <<>> THEN <<>> ELSE [i \in 1..Len(docs) |-> PickleDumpChunk(docs[i])]

Item(items, key) == items[CHOOSE i \in 1..Len(items) : items[i][1] = key][2]

PickleLoadChunk(items) ==
    [doc_id |-> Item(items, "doc_id"), chunk_id |-> Item(items, "chunk_id"),
     content |-> Item(items, "content"), title |-> Item(items, "title"),
     source |-> Item(items, "source"), year |-> Item(items, "year"),
     chunk_index |-> Item(items, "chunk_index"), total_chunks |-> Item(items, "total_chunks")]

\* pickle.load(f) of documents.pkl
PickleLoad(file) ==
    IF file = <<>> THEN <<>> ELSE [i \in 1..Len(file) |-> PickleLoadChunk(file[i])]

\* What save writes
SavedDisk ==
    [dir    |-> TRUE,
     faiss  |-> <<WriteIndex(index_d, index)>>,
     docs   |-> <<PickleDump(documents)>>,
     config |-> <<[embedding_model_name |-> dimension, chunk_size |-> chunk_size,
                   chunk_overlap |-> chunk_overlap, dimension |-> dimension,
                   num_documents |-> Len(documents)]>>]

\* What load reads from a directory that holds both files
LoadedIndex(d) == ReadIndex(d.faiss[1])
LoadedDocuments(d) == PickleLoad(d.docs[1])

\* get_stats()
GetStats ==
    [total_chunks |-> Len(documents),
     unique_documents |-> Cardinality({documents[i].doc_id : i \in 1..Len(documents)}),
     dimension |-> dimension, chunk_size |-> chunk_size, chunk_overlap |-> chunk_overlap]

StoreInit ==
    /\ dimension = MiniLMDim
    /\ index_d = MiniLMDim
    /\ op = "__init__"
    /\ chunk_size = 3
    /\ chunk_overlap = 1
    /\ index = <<>>
    /\ documents = <<>>
    /\ disk = NoDisk
    /\ storeErr = "none"
    /\ adds = 0

QueryInit ==
    /\ qpc = "idle"
    /\ question = <<>>
    /\ k = 0
    /\ retrieved = <<>>
    /\ context = <<>>
    /\ answer = <<>>
    /\ genFailed = FALSE
    /\ genMs = 0
    /\ confidence = [num |-> 0, den |-> 1]
    /\ response = <<>>
    /\ calls = <<>>

ConcInit ==
    /\ wpc = "idle"
    /\ wbatch = <<>>
    /\ wwrite = <<>>
    /\ rpc = "idle"
    /\ rargs = <<>>
    /\ rhits = <<>>
    /\ rresult = <<>>
    /\ views = {}

\* Nothing outside the store and the pipeline has happened yet
SideInit ==
    /\ rag_pipeline = TRUE
    /\ http = <<>>
    /\ mdocs = <<>>
    /\ cres = <<>>
    /\ collection = <<>>
    /\ qcalls = <<>>

otherVarsOfStore == <<confidence_threshold, queryVars, concVars, sideVars>>

\* VectorStore(embedding_model_name, chunk_size, chunk_overlap), bound to the
\* name of the store when the constructor returns; the text splitter raises
\* ValueError when chunk_overlap > chunk_size.
Construct(dim, size, overlap) ==
    /\ qpc = "idle"
    /\ sres' = <<>>
    /\ op' = "__init__"
    /\ IF overlap > size
       THEN /\ storeErr' = "ValueError"
            /\ UNCHANGED <<dimension, index_d, chunk_size, chunk_overlap, index, documents>>
       ELSE /\ dimension' = dim
            /\ index_d' = dim
            /\ chunk_size' = size
            /\ chunk_overlap' = overlap
            /\ index' = <<>>
            /\ documents' = <<>>
            /\ storeErr' = "none"
    /\ UNCHANGED <<disk, adds, otherVarsOfStore>>

\* add_documents that skips the chunks whose chunk_id the store already holds.
AddDocumentsDeduplicating(batch) ==
    /\ qpc = "idle"
    /\ sres' = <<>>
    /\ adds < MaxAdds
    /\ op' = "add_documents"
    /\ LET chunked == ChunkDocuments(batch, chunk_size, chunk_overlap)
           fresh   == SelectSeq(chunked, LAMBDA c :
                          \A i \in 1..Len(documents) : documents[i].chunk_id # c.chunk_id)
       IN  IF dimension = index_d
           THEN /\ index' = index \o Encode(fresh)
                /\ documents' = documents \o fresh
                /\ storeErr' = "none"
           ELSE /\ storeErr' = "AssertionError"
                /\ UNCHANGED <<index, documents>>
    /\ adds' = adds + 1
    /\ UNCHANGED <<dimension, index_d, chunk_size, chunk_overlap, disk, otherVarsOfStore>>

\* add_documents(batch); index.add asserts that the vectors have the dimension
\* of the index, before anything is stored.
AddDocuments(batch) ==
    /\ qpc = "idle"
    /\ sres' = <<>>
    /\ adds < MaxAdds
    /\ op' = "add_documents"
    /\ LET chunked == ChunkDocuments(batch, chunk_size, chunk_overlap)
       IN  IF dimension = index_d
           THEN /\ index' = index \o Encode(chunked)
                /\ documents' = documents \o chunked
                /\ storeErr' = "none"
           ELSE /\ storeErr' = "AssertionError"
                /\ UNCHANGED <<index, documents>>
    /\ adds' = adds + 1
    /\ UNCHANGED <<dimension, index_d, chunk_size, chunk_overlap, disk, otherVarsOfStore>>

\* save(save_dir)
Save ==
    /\ sres' = <<>>
    /\ op' = "save"
    /\ disk' = SavedDisk
    /\ storeErr' = "none"
    /\ UNCHANGED <<dimension, index_d, chunk_size, chunk_overlap, index, documents, adds,
                   otherVarsOfStore>>

\* load(load_dir) when the directory and its two files exist
Load ==
    /\ sres' = <<>>
    /\ disk.dir
    /\ disk.faiss # <<>>
    /\ disk.docs # <<>>
    /\ op' = "load"
    /\ index' = LoadedIndex(disk)
    /\ index_d' = disk.faiss[1].d
    /\ documents' = LoadedDocuments(disk)
    /\ storeErr' = "none"
    /\ UNCHANGED <<dimension, chunk_size, chunk_overlap, disk, adds, otherVarsOfStore>>

\* A load that answers a missing directory with an empty store and no error.
LoadMissingCreatesEmpty ==
    /\ sres' = <<>>
    /\ ~disk.dir
    /\ op' = "load"
    /\ index' = <<>>
    /\ documents' = <<>>
    /\ storeErr' = "none"
    /\ UNCHANGED <<dimension, index_d, chunk_size, chunk_overlap, disk, adds, otherVarsOfStore>>

\* load(load_dir) when the directory does not exist
LoadMissing ==
    /\ sres' = <<>>
    /\ ~disk.dir
    /\ op' = "load"
    /\ storeErr' = "FileNotFoundError"
    /\ UNCHANGED <<dimension, index_d, chunk_size, chunk_overlap, index, documents, disk, adds,
                   otherVarsOfStore>>

\* load(load_dir) when the directory holds no readable faiss.index: read_index raises
LoadNoIndexFile ==
    /\ sres' = <<>>
    /\ disk.dir
    /\ disk.faiss = <<>>
    /\ op' = "load"
    /\ storeErr' = "RuntimeError"
    /\ UNCHANGED <<dimension, index_d, chunk_size, chunk_overlap, index, documents, disk, adds,
                   otherVarsOfStore>>

\* load(load_dir) when the directory holds faiss.index but no readable
\* documents.pkl: the index is already replaced when open / pickle.load raises
LoadNoDocumentsFile ==
    /\ sres' = <<>>
    /\ disk.dir
    /\ disk.faiss # <<>>
    /\ disk.docs = <<>>
    /\ op' = "load"
    /\ index' = LoadedIndex(disk)
    /\ index_d' = disk.faiss[1].d
    /\ storeErr' = "FileNotFoundError"
    /\ UNCHANGED <<dimension, chunk_size, chunk_overlap, documents, disk, adds, otherVarsOfStore>>

\* A file of the save directory is deleted or damaged, outside the program
FileNames == {"faiss", "docs"}

RemoveFile(name) ==
    /\ qpc = "idle"
    /\ sres' = <<>>
    /\ disk.dir
    /\ disk[name] # <<>>
    /\ op' = "rm"
    /\ disk' = [disk EXCEPT ![name] = <<>>]
    /\ UNCHANGED <<dimension, index_d, chunk_size, chunk_overlap, index, documents, storeErr,
                   adds, otherVarsOfStore>>

TopKs == 1..3

\* Below every score FAISS can report, as float("-inf") is.
MinusInfinity == PadScore - 1

\* Thresholds within the range of a cosine, [-1, 1]
CosineThresholds == {-One, 0, 75, 80}

Thresholds == CosineThresholds \cup {MinusInfinity}

\* A direct call of search(query, top_k, score_threshold)
SearchCall(query, top_k, thr) ==
    /\ sres = <<>>
    /\ LET raises == SearchRaisesOn(index, documents, query, top_k, thr)
       IN  sres' = <<[query |-> query, top_k |-> top_k, threshold |-> thr,
                      raised |-> raises,
                      results |-> IF raises THEN <<>> ELSE Search(query, top_k, thr)]>>
    /\ UNCHANGED <<storeVars, confidence_threshold, queryVars, concVars, sideVars>>

\* The caller has the result of its search
SearchReturn ==
    /\ sres # <<>>
    /\ sres' = <<>>
    /\ UNCHANGED <<storeVars, confidence_threshold, queryVars, concVars, sideVars>>

InitStore ==
    /\ StoreInit
    /\ QueryInit
    /\ ConcInit
    /\ SideInit
    /\ sres = <<>>
    /\ confidence_threshold = 75

NextStore ==
    \/ \E batch \in Batches : AddDocuments(batch)
    \/ Save
    \/ Load
    \/ LoadMissing
    \/ \E query \in Questions, top_k \in TopKs, thr \in Thresholds : SearchCall(query, top_k, thr)
    \/ SearchReturn

\* The VectorStore on its own: every order of its public operations.
SpecStore == InitStore /\ [][NextStore]_vars

(***************************************************************************)
(* The life of a store across processes: a process constructs a            *)
(* VectorStore from its settings (scripts/ingest_data.py main, api.py      *)
(* lifespan), adds documents, saves; a later process constructs a fresh    *)
(* store, perhaps from other settings, and loads what the directory holds. *)
(***************************************************************************)
\* The settings a process may run with: the output dimension of its embedding
\* model, chunk_size, chunk_overlap
StoreSettings == { <<MiniLMDim, 3, 1>>, <<OtherDim, 2, 2>>, <<MiniLMDim, 2, 3>> }

\* The lists of documents the ingestion of a process adds
LifeBatches == { <<DocAnemia>>, <<DocAsthma, DocPubMed>> }

NextLife ==
    \/ \E st \in StoreSettings : Construct(st[1], st[2], st[3])
    \/ \E batch \in LifeBatches : AddDocuments(batch)
    \/ Save
    \/ Load
    \/ LoadMissing
    \/ LoadNoIndexFile
    \/ LoadNoDocumentsFile
    \/ \E name \in FileNames : RemoveFile(name)

SpecLife == InitStore /\ [][NextLife]_vars


(***************************************************************************)
(* _chunk_documents on its own: every text of letters and spaces of up to  *)
(* MaxTextLen characters, under every pair of settings the constructor     *)
(* accepts with chunk_size in 1..MaxChunkSize.                             *)
(***************************************************************************)
MaxTextLen == 4
MaxChunkSize == 3

Alphabet == {"a", "b", " "}

Texts == UNION { [1..n -> Alphabet] : n \in 0..MaxTextLen }

ChunkSettings == { <<MiniLMDim, size, overlap>> : size \in 1..MaxChunkSize, overlap \in 0..MaxChunkSize }

\* A direct call of _chunk_documents([MedicalDocument(text, ...)])
ChunkDocumentsCall(text) ==
    /\ cres = <<>>
    /\ LET batch == <<MedicalDocument(text, "Note", "local", "2024")>>
       IN  cres' = <<[documents |-> batch, chunk_size |-> chunk_size,
                      chunk_overlap |-> chunk_overlap,
                      chunks |-> ChunkDocuments(batch, chunk_size, chunk_overlap)]>>
    /\ UNCHANGED <<storeVars, sres, confidence_threshold, queryVars, concVars, apiVars, mdocs,
                   qdrantVars>>

\* The caller has the chunk records
ChunkDocumentsReturn ==
    /\ cres # <<>>
    /\ cres' = <<>>
    /\ UNCHANGED <<storeVars, sres, confidence_threshold, queryVars, concVars, apiVars, mdocs,
                   qdrantVars>>

NextChunk ==
    \/ \E st \in ChunkSettings : Construct(st[1], st[2], st[3])
    \/ \E text \in Texts : ChunkDocumentsCall(text)
    \/ ChunkDocumentsReturn

SpecChunk == InitStore /\ [][NextChunk]_vars

(***************************************************************************)
(* MedicalDocument construction on its own: the contents straddle the      *)
(* HashPrefixLen characters the id is computed from.                       *)
(***************************************************************************)
LongPrefix == [i \in 1..HashPrefixLen |-> "a"]

DocContents ==
    { <<"a", "b">>, LongPrefix \o <<"a">>, LongPrefix \o <<"b">>,
      SubSeq(LongPrefix, 2, HashPrefixLen) \o <<"b", "a">> }

DocTitles == {"Anemia", "Asthma"}
DocSources == {"sample", "PubMed"}

\* The doc_id arguments the callers pass: None, or the id of a PubMed record or
\* of a saved corpus entry
DocIdArgs == { <<>>, <<"PMID_1">> }

\* The values of datetime.now()
Times == {1, 2}

\* The two objects constructed last
LastTwo(seq) == IF Len(seq) > 2 THEN SubSeq(seq, Len(seq) - 1, Len(seq)) ELSE seq

\* doc = MedicalDocument(content, title, source, doc_id, year)
NewMedicalDocument(content, title, source, doc_id, year, now) ==
    /\ mdocs' = LastTwo(Append(mdocs,
                    [given |-> doc_id,
                     doc |-> MedicalDocumentInit(content, title, source, doc_id, year, now)]))
    /\ UNCHANGED <<storeVars, sres, confidence_threshold, queryVars, concVars, apiVars, cres,
                   qdrantVars>>

NextDoc ==
    \E content \in DocContents, title \in DocTitles, source \in DocSources,
       doc_id \in DocIdArgs, now \in Times :
        NewMedicalDocument(content, title, source, doc_id, "2020", now)

SpecDoc == InitStore /\ [][NextDoc]_vars

(***************************************************************************)
(* QdrantVectorStore (src/src/vector_store_qdrant.py), built with the      *)
(* defaults of its constructor over an in-memory collection.               *)
(***************************************************************************)
QdrantChunkSize == 500
QdrantChunkOverlap == 50

\* The loop of add_documents that builds the points: id=idx, the position of
\* the chunk in this call
QdrantPoints(chunked) ==
    [i \in 1..Len(chunked) |->
        [id |-> i - 1, vector |-> Embed(chunked[i].content), payload |-> chunked[i]]]

\* client.upsert(collection_name, points): a point replaces the point of the
\* same id, if there is one
Upsert(coll, points) ==
    [i \in 1..(IF Len(coll) >= Len(points) THEN Len(coll) ELSE Len(points)) |->
        IF i <= Len(points) THEN points[i] ELSE coll[i]]

\* QdrantVectorStore.add_documents(batch)
QdrantAddDocuments(batch) ==
    /\ Len(qcalls) < MaxAdds
    /\ collection' = Upsert(collection,
                        QdrantPoints(ChunkDocuments(batch, QdrantChunkSize, QdrantChunkOverlap)))
    /\ qcalls' = Append(qcalls, batch)
    /\ sres' = <<>>
    /\ UNCHANGED <<storeVars, confidence_threshold, queryVars, concVars, apiVars, ingestVars>>

\* QdrantVectorStore.search: client.search returns at most `limit` points of
\* score >= score_threshold, best first
QdrantSearch(query, top_k, thr) ==
    LET vecs == [i \in 1..Len(collection) |-> collection[i].vector]
        hits == TopK(vecs, Embed(query), Min(top_k, Len(vecs)), 1..Len(vecs))
        kept == SelectSeq(hits, LAMBDA h : h.score >= thr)
    IN  [i \in 1..Len(kept) |-> [doc |-> collection[kept[i].idx + 1].payload, score |-> kept[i].score]]

\* A call of QdrantVectorStore.search(query, top_k, score_threshold)
QdrantSearchCall(query, top_k, thr) ==
    /\ sres = <<>>
    /\ sres' = <<[query |-> query, top_k |-> top_k, threshold |-> thr, raised |-> FALSE,
                  results |-> QdrantSearch(query, top_k, thr)]>>
    /\ UNCHANGED <<storeVars, confidence_threshold, queryVars, concVars, sideVars>>

NextQdrant ==
    \/ \E batch \in Batches : QdrantAddDocuments(batch)
    \/ \E query \in Questions, top_k \in TopKs, thr \in CosineThresholds :
           QdrantSearchCall(query, top_k, thr)
    \/ SearchReturn

SpecQdrant == InitStore /\ [][NextQdrant]_vars

(***************************************************************************)
(* The VectorStore shared by a writer thread and a reader thread.  The     *)
(* code takes no lock: add_documents and load each make two assignments    *)
(* (the index, then the documents), and search reads the index (in         *)
(* index.search) and then the documents (in its filter loop).              *)
(***************************************************************************)
StoreState(vecs, docs) == [index |-> vecs, documents |-> docs]

\* The last store state that existed whole: the one before the write in progress, if any.
Committed == IF wpc = "idle" THEN StoreState(index, documents) ELSE wwrite[1].pre

\* The store states a search that ends now may answer from.
ViewsAtEnd == views \cup (IF wpc = "idle" THEN {} ELSE {wwrite[1].post})

otherVarsOfConc == <<sres, confidence_threshold, queryVars, sideVars>>

\* add_documents, up to self.index.add(embeddings)
WriterAddIndex(batch) ==
    /\ wpc = "idle"
    /\ adds < MaxAdds
    /\ LET chunked == ChunkDocuments(batch, chunk_size, chunk_overlap)
       IN  /\ index' = index \o Encode(chunked)
           /\ wbatch' = chunked
           /\ wwrite' = <<[pre  |-> StoreState(index, documents),
                           post |-> StoreState(index \o Encode(chunked), documents \o chunked)]>>
    /\ wpc' = "add"
    /\ adds' = adds + 1
    /\ op' = "add_documents"
    /\ UNCHANGED <<dimension, index_d, chunk_size, chunk_overlap, documents, disk, storeErr>>
    /\ UNCHANGED <<rpc, rargs, rhits, rresult, views, otherVarsOfConc>>

\* add_documents: self.documents.extend(chunked_docs)
WriterAddExtend ==
    /\ wpc = "add"
    /\ documents' = documents \o wbatch
    /\ wpc' = "idle"
    /\ wbatch' = <<>>
    /\ wwrite' = <<>>
    /\ storeErr' = "none"
    /\ views' = IF rpc = "searched" THEN views \cup {wwrite[1].post} ELSE views
    /\ UNCHANGED <<dimension, index_d, op, chunk_size, chunk_overlap, index, disk, adds>>
    /\ UNCHANGED <<rpc, rargs, rhits, rresult, otherVarsOfConc>>

\* save, by the writer thread between its writes
WriterSave ==
    /\ wpc = "idle"
    /\ op' = "save"
    /\ disk' = SavedDisk
    /\ storeErr' = "none"
    /\ UNCHANGED <<dimension, index_d, chunk_size, chunk_overlap, index, documents, adds,
                   concVars, otherVarsOfConc>>

\* load, up to self.index = faiss.read_index(...)
WriterLoadIndex ==
    /\ wpc = "idle"
    /\ disk.faiss # <<>>
    /\ disk.docs # <<>>
    /\ op' = "load"
    /\ index' = LoadedIndex(disk)
    /\ index_d' = disk.faiss[1].d
    /\ wwrite' = <<[pre  |-> StoreState(index, documents),
                    post |-> StoreState(LoadedIndex(disk), LoadedDocuments(disk))]>>
    /\ wpc' = "load"
    /\ UNCHANGED <<dimension, chunk_size, chunk_overlap, documents, disk, storeErr, adds, wbatch>>
    /\ UNCHANGED <<rpc, rargs, rhits, rresult, views, otherVarsOfConc>>

\* load: self.documents = pickle.load(f)
WriterLoadDocuments ==
    /\ wpc = "load"
    /\ documents' = LoadedDocuments(disk)
    /\ wpc' = "idle"
    /\ wwrite' = <<>>
    /\ storeErr' = "none"
    /\ views' = IF rpc = "searched" THEN views \cup {wwrite[1].post} ELSE views
    /\ UNCHANGED <<dimension, index_d, op, chunk_size, chunk_overlap, index, disk, adds, wbatch>>
    /\ UNCHANGED <<rpc, rargs, rhits, rresult, otherVarsOfConc>>

\* search, up to the return of self.index.search (or the early return)
ReaderSearchIndex(query, top_k, thr) ==
    /\ rpc = "idle"
    /\ rargs' = <<[query |-> query, top_k |-> top_k, threshold |-> thr]>>
    /\ IF Len(documents) = 0
       THEN /\ rhits' = <<>>
            /\ rresult' = <<>>
            /\ rpc' = "done"
            /\ views' = {Committed} \cup (IF wpc = "idle" THEN {} ELSE {wwrite[1].post})
       ELSE /\ rhits' = IndexSearch(index, Embed(query), top_k)
            /\ rresult' = <<>>
            /\ rpc' = "searched"
            /\ views' = {Committed}
    /\ UNCHANGED <<storeVars, wpc, wbatch, wwrite, otherVarsOfConc>>

\* search: the filter loop and the return
ReaderFilter ==
    /\ rpc = "searched"
    /\ IF FilterRaises(rhits, documents, rargs[1].threshold)
       THEN /\ rresult' = <<>>
            /\ rpc' = "raised"
       ELSE /\ rresult' = FilterHits(rhits, documents, rargs[1].threshold)
            /\ rpc' = "done"
    /\ views' = ViewsAtEnd
    /\ UNCHANGED <<storeVars, wpc, wbatch, wwrite, rargs, rhits, otherVarsOfConc>>

\* The reader has its result or the exception
ReaderReturn ==
    /\ rpc \in {"done", "raised"}
    /\ rpc' = "idle"
    /\ rargs' = <<>>
    /\ rhits' = <<>>
    /\ rresult' = <<>>
    /\ views' = {}
    /\ UNCHANGED <<storeVars, wpc, wbatch, wwrite, otherVarsOfConc>>

NextConc ==
    \/ \E batch \in Batches : WriterAddIndex(batch)
    \/ WriterAddExtend
    \/ WriterSave
    \/ WriterLoadIndex
    \/ WriterLoadDocuments
    \/ \E query \in Questions, top_k \in TopKs, thr \in CosineThresholds :
            ReaderSearchIndex(query, top_k, thr)
    \/ ReaderFilter
    \/ ReaderReturn

\* One writer thread and one reader thread on the same VectorStore.
SpecConc == InitStore /\ [][NextConc]_vars

(***************************************************************************)
(* Answer texts.  An answer is a sequence of phrases; a phrase is either   *)
(* one of the strings the code looks for, in some letter case, or other    *)
(* text.                                                                   *)
(***************************************************************************)
CitationMarker == "[DOC_"
DisclaimerPhrase == "educational purposes"
UncertaintyPhrases ==
    {"don't have enough", "cannot answer", "insufficient information", "not enough verified"}

\* str.lower() of a phrase
LowerPhrase(p) ==
    CASE p = "[DOC_1]" -> "[doc_1]"
      [] p = "[DOC_9]" -> "[doc_9]"
      [] p = "Educational Purposes" -> "educational purposes"
      [] p = "Cannot Answer" -> "cannot answer"
      [] p = "Error generating response: " -> "error generating response: "
      [] p = "Sources: " -> "sources: "
      [] OTHER -> p

Lower(text) == [i \in 1..Len(text) |-> LowerPhrase(text[i])]

\* needle in phrase
PhraseHas(p, needle) ==
    \/ p = needle
    \/ needle = CitationMarker /\ p \in {"[DOC_1]", "[DOC_9]"}

\* needle in text
Contains(text, needle) == \E i \in 1..Len(text) : PhraseHas(text[i], needle)

RefusalText ==
    <<"I'm sorry, I ", "don't have enough", " verified information to answer that safely.">>

Disclaimer ==
    <<"\n\n", "This information is for ", "educational purposes", " only">>

ErrorPrefix == "Error generating response: "

\* What the generation capability can do with a prompt: return a text, or raise
\* an exception whose message is the text; ms is the time the call took.
GenOutcomes ==
    { [ok |-> TRUE,  ms |-> 9, text |-> <<"Anemia is common. ">>],
      [ok |-> TRUE,  ms |-> 9, text |-> <<"Anemia is common. ", "[DOC_1]">>],
      [ok |-> TRUE,  ms |-> 9, text |-> <<"[DOC_9]", "Sources: ">>],
      [ok |-> TRUE,  ms |-> 9, text |-> <<"[doc_1]">>],
      [ok |-> TRUE,  ms |-> 9, text |-> <<"[DOC_1]", "educational purposes">>],
      [ok |-> TRUE,  ms |-> 9, text |-> <<"Educational Purposes">>],
      [ok |-> TRUE,  ms |-> 9, text |-> RefusalText],
      [ok |-> TRUE,  ms |-> 9, text |-> <<"[DOC_1]", "cannot answer">>],
      [ok |-> TRUE,  ms |-> 9, text |-> <<"Cannot Answer">>],
      [ok |-> TRUE,  ms |-> 0, text |-> <<"insufficient information">>],
      [ok |-> TRUE,  ms |-> 9, text |-> <<"not enough verified", "Educational Purposes">>],
      [ok |-> FALSE, ms |-> 9, text |-> <<"timeout">>],
      [ok |-> FALSE, ms |-> 0, text |-> <<"quota exceeded for ", "[DOC_1]">>] }

\* _generate_openai / _generate_gemini / _generate_huggingface: the provider's
\* text, or the text that reports the exception it raised.
GenerateText(outcome) ==
    IF outcome.ok THEN outcome.text ELSE <<ErrorPrefix>> \o outcome.text

(***************************************************************************)
(* RAGPipeline.                                                            *)
(***************************************************************************)
DefaultTopK == 5
ExcerptLen == 200

Scores(retrieved_docs) == [i \in 1..Len(retrieved_docs) |-> retrieved_docs[i].score]

HasCitations(text) == Contains(text, CitationMarker)

AdmitsUncertainty(text) == \E phrase \in UncertaintyPhrases : Contains(Lower(text), phrase)

\* The comparison with <= for <.
AvgBelowOrEqual(retrieved_docs, thr) == SumSeq(Scores(retrieved_docs)) <= thr * Len(retrieved_docs)

\* avg_score < self.confidence_threshold, for a non-empty list
AvgBelow(retrieved_docs, thr) == SumSeq(Scores(retrieved_docs)) < thr * Len(retrieved_docs)

\* min(confidence, 1.0)
CapAtOne(c) == IF c.num <= One * c.den THEN c ELSE [num |-> One, den |-> 1]

\* _calculate_confidence(retrieved_docs, answer): the fraction num/den of hundredths
CalculateConfidence(retrieved_docs, text, thr) ==
    IF retrieved_docs = <<>> THEN [num |-> 0, den |-> 1]
    ELSE LET boost   == IF HasCitations(text) THEN 11 ELSE 10
             penalty == IF AdmitsUncertainty(text) /\ AvgBelow(retrieved_docs, thr) THEN 7 ELSE 10
         IN  CapAtOne([num |-> SumSeq(Scores(retrieved_docs)) * boost * penalty,
                       den |-> Len(retrieved_docs) * 100])

\* The sufficiency check with <= for <: a score equal to the threshold is refused.
InsufficientAtThreshold(retrieved_docs, thr) ==
    \/ retrieved_docs = <<>>
    \/ \A i \in 1..Len(retrieved_docs) : retrieved_docs[i].score <= thr

\* The sufficiency check of query()
Insufficient(retrieved_docs, thr) ==
    \/ retrieved_docs = <<>>
    \/ \A i \in 1..Len(retrieved_docs) : retrieved_docs[i].score < thr

Excerpt(content) ==
    IF Len(content) > ExcerptLen
    THEN SubSeq(content, 1, ExcerptLen) \o <<".", ".", ".">>
    ELSE content

\* _format_context(retrieved_docs): for each fragment its label, title, source,
\* year, content and score, in the order of retrieved_docs
FormatContext(retrieved_docs) ==
    [i \in 1..Len(retrieved_docs) |->
        [label |-> <<"DOC_", i>>, title |-> retrieved_docs[i].doc.title,
         source |-> retrieved_docs[i].doc.source, year |-> retrieved_docs[i].doc.year,
         content |-> retrieved_docs[i].doc.content, score |-> retrieved_docs[i].score]]

\* The sources labelled from DOC_0.
SourcesLabelledFromZero(retrieved_docs) ==
    [i \in 1..Len(retrieved_docs) |->
        [doc_id |-> <<"DOC_", i - 1>>, title |-> retrieved_docs[i].doc.title,
         year |-> retrieved_docs[i].doc.year, relevance_score |-> retrieved_docs[i].score,
         excerpt |-> Excerpt(retrieved_docs[i].doc.content)]]

\* The loop of query() that formats the sources
Sources(retrieved_docs) ==
    [i \in 1..Len(retrieved_docs) |->
        [doc_id |-> <<"DOC_", i>>, title |-> retrieved_docs[i].doc.title,
         year |-> retrieved_docs[i].doc.year, relevance_score |-> retrieved_docs[i].score,
         excerpt |-> Excerpt(retrieved_docs[i].doc.content)]]

\* The disclaimer check without lower(): a differently cased phrase is missed.
WithDisclaimerCaseSensitive(text) ==
    IF ~Contains(text, DisclaimerPhrase) THEN text \o Disclaimer ELSE text

\* "Add disclaimer if not present"
WithDisclaimer(text) ==
    IF ~Contains(Lower(text), DisclaimerPhrase) THEN text \o Disclaimer ELSE text

\* The constraint of QueryResponse.confidence: ge=0.0, le=1.0
ValidConfidence(c) == c.num >= 0 /\ c.num <= One * c.den

RefusalResponse(q) ==
    [question |-> q, answer |-> RefusalText, sources |-> <<>>,
     confidence |-> [num |-> 0, den |-> 1], generation_time_ms |-> 0,
     warning |-> "Insufficient verified information available"]

otherVarsOfQuery == <<storeVars, sres, confidence_threshold, concVars, sideVars>>

\* The retrieval phase with the default score_threshold of search, 0.0.
QueryRetrieveUnfiltered(q, top_k) ==
    /\ qpc = "idle"
    /\ question' = q
    /\ k' = (IF top_k # 0 THEN top_k ELSE DefaultTopK)
    /\ retrieved' = Search(q, k', 0)
    /\ calls' = <<"search">>
    /\ qpc' = "retrieved"
    /\ context' = <<>>
    /\ answer' = <<>>
    /\ genFailed' = FALSE
    /\ genMs' = 0
    /\ confidence' = [num |-> 0, den |-> 1]
    /\ response' = <<>>
    /\ UNCHANGED otherVarsOfQuery

\* query(question, top_k), up to the end of the retrieval phase
QueryRetrieve(q, top_k) ==
    /\ qpc = "idle"
    /\ question' = q
    /\ k' = (IF top_k # 0 THEN top_k ELSE DefaultTopK)
    /\ retrieved' = Search(q, k', confidence_threshold)
    /\ calls' = <<"search">>
    /\ qpc' = "retrieved"
    /\ context' = <<>>
    /\ answer' = <<>>
    /\ genFailed' = FALSE
    /\ genMs' = 0
    /\ confidence' = [num |-> 0, den |-> 1]
    /\ response' = <<>>
    /\ UNCHANGED otherVarsOfQuery

\* A failed embedding call that leaves the store emptied.
QueryRetrieveFailsResetsStore(q, top_k) ==
    /\ qpc = "idle"
    /\ Len(documents) > 0
    /\ question' = q
    /\ k' = (IF top_k # 0 THEN top_k ELSE DefaultTopK)
    /\ retrieved' = <<>>
    /\ calls' = <<"search">>
    /\ qpc' = "search_raised"
    /\ index' = <<>>
    /\ documents' = <<>>
    /\ UNCHANGED <<context, answer, genFailed, genMs, confidence, response>>
    /\ UNCHANGED <<dimension, index_d, op, chunk_size, chunk_overlap, disk, storeErr, adds>>
    /\ UNCHANGED <<sres, confidence_threshold, concVars, sideVars>>

\* query(question, top_k) when the embedding model raises in search: search
\* encodes the query only for a store that holds documents, and neither
\* search nor query() catches the exception.
QueryRetrieveFails(q, top_k) ==
    /\ qpc = "idle"
    /\ Len(documents) > 0
    /\ question' = q
    /\ k' = (IF top_k # 0 THEN top_k ELSE DefaultTopK)
    /\ retrieved' = <<>>
    /\ calls' = <<"search">>
    /\ qpc' = "search_raised"
    /\ UNCHANGED <<context, answer, genFailed, genMs, confidence, response>>
    /\ UNCHANGED otherVarsOfQuery

\* The refusal returned only after the generation capability was called.
QueryRefuseAfterGenerate ==
    /\ qpc = "retrieved"
    /\ Insufficient(retrieved, confidence_threshold)
    /\ response' = <<RefusalResponse(question)>>
    /\ calls' = Append(calls, "generate")
    /\ qpc' = "done"
    /\ UNCHANGED <<question, k, retrieved, context, answer, genFailed, genMs, confidence>>
    /\ UNCHANGED otherVarsOfQuery

\* query(): the context is insufficient, the refusal is returned
QueryRefuse ==
    /\ qpc = "retrieved"
    /\ Insufficient(retrieved, confidence_threshold)
    /\ response' = <<RefusalResponse(question)>>
    /\ qpc' = "done"
    /\ UNCHANGED <<question, k, retrieved, context, answer, genFailed, genMs, confidence, calls>>
    /\ UNCHANGED otherVarsOfQuery

\* The generation phase with a second call when the first one failed.
QueryGenerateWithRetry(outcome) ==
    /\ qpc = "retrieved"
    /\ ~Insufficient(retrieved, confidence_threshold)
    /\ context' = FormatContext(retrieved)
    /\ answer' = GenerateText(outcome)
    /\ genFailed' = ~outcome.ok
    /\ genMs' = outcome.ms
    /\ calls' = IF outcome.ok THEN Append(calls, "generate")
                ELSE calls \o <<"generate", "generate">>
    /\ qpc' = "generated"
    /\ UNCHANGED <<question, k, retrieved, confidence, response>>
    /\ UNCHANGED otherVarsOfQuery

\* query(): the generation phase
QueryGenerate(outcome) ==
    /\ qpc = "retrieved"
    /\ ~Insufficient(retrieved, confidence_threshold)
    /\ context' = FormatContext(retrieved)
    /\ answer' = GenerateText(outcome)
    /\ genFailed' = ~outcome.ok
    /\ genMs' = outcome.ms
    /\ calls' = Append(calls, "generate")
    /\ qpc' = "generated"
    /\ UNCHANGED <<question, k, retrieved, confidence, response>>
    /\ UNCHANGED otherVarsOfQuery

\* query(): confidence = self._calculate_confidence(retrieved_docs, answer)
QueryScore ==
    /\ qpc = "generated"
    /\ confidence' = CalculateConfidence(retrieved, answer, confidence_threshold)
    /\ calls' = Append(calls, "calculate_confidence")
    /\ qpc' = "scored"
    /\ UNCHANGED <<question, k, retrieved, context, answer, genFailed, genMs, response>>
    /\ UNCHANGED otherVarsOfQuery

\* query(): sources, disclaimer and the QueryResponse, whose validation may raise
QueryAssemble ==
    /\ qpc = "scored"
    /\ calls' = Append(calls, "QueryResponse")
    /\ IF ValidConfidence(confidence)
       THEN /\ response' = <<[question |-> question, answer |-> WithDisclaimer(answer),
                              sources |-> Sources(retrieved), confidence |-> confidence,
                              generation_time_ms |-> genMs,
                              warning |-> "Always consult with qualified healthcare professionals"]>>
            /\ qpc' = "done"
       ELSE /\ response' = <<>>
            /\ qpc' = "raised"
    /\ UNCHANGED <<question, k, retrieved, context, answer, genFailed, genMs, confidence>>
    /\ UNCHANGED otherVarsOfQuery

\* The caller has the result (or the exception) of query(); the pipeline is free again
QueryReturn ==
    /\ qpc \in {"done", "raised", "search_raised"}
    /\ qpc' = "idle"
    /\ question' = <<>>
    /\ k' = 0
    /\ retrieved' = <<>>
    /\ context' = <<>>
    /\ answer' = <<>>
    /\ genFailed' = FALSE
    /\ genMs' = 0
    /\ confidence' = [num |-> 0, den |-> 1]
    /\ response' = <<>>
    /\ calls' = <<>>
    /\ UNCHANGED otherVarsOfQuery

\* The values the deployments give RAGPipeline.confidence_threshold
ConfidenceThresholds == {-One, 75, 80}

\* top_k of query(): 0 stands for None
QueryTopKs == 0..2

Init ==
    /\ StoreInit
    /\ QueryInit
    /\ ConcInit
    /\ SideInit
    /\ sres = <<>>
    /\ confidence_threshold \in ConfidenceThresholds

Next ==
    \/ \E batch \in Batches : AddDocuments(batch)
    \/ \E q \in Questions, top_k \in QueryTopKs : QueryRetrieve(q, top_k)
    \/ \E q \in Questions, top_k \in QueryTopKs : QueryRetrieveFails(q, top_k)
    \/ QueryRefuse
    \/ \E outcome \in GenOutcomes : QueryGenerate(outcome)
    \/ QueryScore
    \/ QueryAssemble
    \/ QueryReturn

\* The pipeline over a store that ingestion fills: queries run one at a time,
\* between calls of add_documents.
Spec == Init /\ [][Next]_vars


(***************************************************************************)
(* _calculate_confidence on its own: every list of up to MaxDocs scored    *)
(* fragments, every answer text and every threshold.                       *)
(***************************************************************************)
MaxDocs == 2

RetrievalScores == {-One, -60, 0, 28, 60, 75, 80, 96, One}

AnyChunk == ChunkOne(DocAsthma, 3, 1)[1]

ScoredLists ==
    UNION { [1..n -> {[doc |-> AnyChunk, score |-> sc] : sc \in RetrievalScores}] : n \in 0..MaxDocs }

AnswerTexts == { GenerateText(outcome) : outcome \in GenOutcomes }

InitConf ==
    /\ StoreInit
    /\ ConcInit
    /\ SideInit
    /\ sres = <<>>
    /\ confidence_threshold \in {-One, 0, 75, 80}
    /\ qpc = "generated"
    /\ question = <<"a">>
    /\ k = DefaultTopK
    /\ retrieved \in ScoredLists
    /\ context = FormatContext(retrieved)
    /\ answer \in AnswerTexts
    /\ genFailed = FALSE
    /\ genMs = 0
    /\ confidence = [num |-> 0, den |-> 1]
    /\ response = <<>>
    /\ calls = <<"search", "generate">>

NextConf == QueryScore

SpecConf == InitConf /\ [][NextConf]_vars

(***************************************************************************)
(* POST /query (src/src/api.py query_endpoint): the request is validated   *)
(* as a QueryRequest, the handler calls rag_pipeline.query and builds the  *)
(* QueryResponse of the competition format.  A field of the JSON payload   *)
(* is <<>> (absent) or <<value>>.  The handler runs on the event loop, one *)
(* request at a time.                                                      *)
(***************************************************************************)
MinQueryLen == 3
RequestTopKDefault == 5
RequestTopKMax == 20

Payloads ==
    [query : {<<>>, << <<"a", "b">> >>, << <<"a", "b", "a">> >>, << <<"b", "b", "b">> >>},
     question : {<<>>, << <<"a">> >>, << <<"a", "a", "b">> >>},
     top_k : {<<>>, <<0>>, <<1>>, <<2>>, <<RequestTopKMax + 1>>},
     include_sources : BOOLEAN]

\* The validation of QueryRequest: query is required, of min_length 3; top_k
\* is in 1..20; question, if present, is of min_length 3
ValidRequest(p) ==
    /\ p.query # <<>>
    /\ Len(p.query[1]) >= MinQueryLen
    /\ p.question # <<>> => Len(p.question[1]) >= MinQueryLen
    /\ p.top_k # <<>> => p.top_k[1] \in 1..RequestTopKMax

\* request.top_k
RequestTopK(p) == IF p.top_k = <<>> THEN RequestTopKDefault ELSE p.top_k[1]

\* question = request.query if request.query else request.question
RequestQuestion(p) == IF p.query # <<>> /\ p.query[1] # <<>> THEN p.query[1] ELSE p.question[1]

\* The body with contexts taken from the sources it returns.
ApiBodyContextsOfReturnedSources(resp, p) ==
    [answer |-> resp.answer,
     contexts |-> IF p.include_sources
                  THEN [i \in 1..Min(Len(resp.sources), RequestTopK(p)) |-> resp.sources[i].excerpt]
                  ELSE <<>>,
     question |-> RequestQuestion(p),
     sources |-> IF p.include_sources THEN <<resp.sources>> ELSE <<>>,
     confidence |-> resp.confidence, generation_time_ms |-> resp.generation_time_ms,
     warning |-> resp.warning]

\* The QueryResponse the handler returns; sources is <<>> for None
ApiBody(resp, p) ==
    [answer |-> resp.answer,
     contexts |-> [i \in 1..Min(Len(resp.sources), RequestTopK(p)) |-> resp.sources[i].excerpt],
     question |-> RequestQuestion(p),
     sources |-> IF p.include_sources THEN <<resp.sources>> ELSE <<>>,
     confidence |-> resp.confidence, generation_time_ms |-> resp.generation_time_ms,
     warning |-> resp.warning]

otherVarsOfApi ==
    <<storeVars, sres, confidence_threshold, queryVars, concVars, rag_pipeline, ingestVars, qdrantVars>>

Running == http # <<>> /\ http[1].status = "running"

\* The payload is not a QueryRequest: FastAPI answers 422
ApiReject(p) ==
    /\ http = <<>>
    /\ ~ValidRequest(p)
    /\ http' = <<[payload |-> p, status |-> "422", body |-> <<>>]>>
    /\ UNCHANGED otherVarsOfApi

\* The handler finds no pipeline or an empty store: 503
ApiUnavailable(p) ==
    /\ http = <<>>
    /\ ValidRequest(p)
    /\ ~rag_pipeline \/ Len(documents) = 0
    /\ http' = <<[payload |-> p, status |-> "503", body |-> <<>>]>>
    /\ UNCHANGED otherVarsOfApi

\* The handler passes its two checks
ApiAccept(p) ==
    /\ http = <<>>
    /\ ValidRequest(p)
    /\ rag_pipeline /\ Len(documents) > 0
    /\ http' = <<[payload |-> p, status |-> "running", body |-> <<>>]>>
    /\ UNCHANGED otherVarsOfApi

\* response = rag_pipeline.query(question=question, top_k=request.top_k)
ApiCallPipeline ==
    /\ Running
    /\ QueryRetrieve(RequestQuestion(http[1].payload), RequestTopK(http[1].payload))

\* The same call when the embedding model raises in search
ApiCallPipelineFails ==
    /\ Running
    /\ QueryRetrieveFails(RequestQuestion(http[1].payload), RequestTopK(http[1].payload))

\* The handler returns the QueryResponse built from what query() returned, or
\* turns the exception query() raised into a 500
ApiRespond ==
    /\ Running
    /\ qpc \in {"done", "raised", "search_raised"}
    /\ http' = IF qpc = "done"
               THEN <<[payload |-> http[1].payload, status |-> "200",
                       body |-> <<ApiBody(response[1], http[1].payload)>>]>>
               ELSE <<[payload |-> http[1].payload, status |-> "500", body |-> <<>>]>>
    /\ UNCHANGED otherVarsOfApi

\* The locals of query() are gone once the handler has returned
ApiRelease ==
    /\ http # <<>>
    /\ http[1].status # "running"
    /\ QueryReturn

\* The client has the response
ApiDone ==
    /\ http # <<>>
    /\ http[1].status # "running"
    /\ qpc = "idle"
    /\ http' = <<>>
    /\ UNCHANGED otherVarsOfApi

InitApi ==
    /\ StoreInit
    /\ QueryInit
    /\ ConcInit
    /\ sres = <<>>
    /\ confidence_threshold \in ConfidenceThresholds
    /\ rag_pipeline \in BOOLEAN
    /\ http = <<>>
    /\ mdocs = <<>>
    /\ cres = <<>>
    /\ collection = <<>>
    /\ qcalls = <<>>

NextApi ==
    \/ \E batch \in Batches : http = <<>> /\ AddDocuments(batch)
    \/ \E p \in Payloads : ApiReject(p)
    \/ \E p \in Payloads : ApiUnavailable(p)
    \/ \E p \in Payloads : ApiAccept(p)
    \/ ApiCallPipeline
    \/ ApiCallPipelineFails
    \/ QueryRefuse
    \/ \E outcome \in GenOutcomes : QueryGenerate(outcome)
    \/ QueryScore
    \/ QueryAssemble
    \/ ApiRespond
    \/ ApiRelease
    \/ ApiDone

\* The API over a store that ingestion filled before the server started or
\* fills between requests.
SpecApi == InitApi /\ [][NextApi]_vars

(***************************************************************************)
(* Properties of query().                                                  *)
(***************************************************************************)
Returned == qpc = "done" /\ response # <<>>

IsRefusal(r) ==
    /\ r.answer = RefusalText
    /\ r.sources = <<>>
    /\ r.confidence.num = 0
    /\ r.generation_time_ms = 0
    /\ r.warning = "Insufficient verified information available"

RefusalReturned == Returned /\ IsRefusal(response[1])

AllBelowThreshold ==
    \A i \in 1..Len(retrieved) : retrieved[i].score < confidence_threshold

\* C1: when query() has ended, it returned the refusal response (refusal text,
\* no sources, confidence 0, generation time 0, the insufficiency warning) if and
\* only if the retrieval result was empty or every retrieved score was below
\* confidence_threshold; so a result holding a score equal to the threshold is
\* not refused.
C1_RefusalIffInsufficient ==
    qpc \in {"done", "raised"} =>
        (RefusalReturned <=> (Len(retrieved) = 0 \/ AllBelowThreshold))

\* A query answered on a result that holds a score equal to the threshold.
C1_Witness ==
    /\ Returned
    /\ ~IsRefusal(response[1])
    /\ \E i \in 1..Len(retrieved) : retrieved[i].score = confidence_threshold

\* C2: a query that ends in the refusal response made no call of the generation
\* capability between its start and its return (search is the only call it
\* made), and every query against an empty index ends in the refusal.
C2_NoGenerationOnRefusal ==
    /\ RefusalReturned => (calls = <<"search">> /\ ~genFailed /\ answer = <<>>)
    /\ (qpc \in {"done", "raised"} /\ Len(documents) = 0) => RefusalReturned

\* A refusal returned by a query against an empty index.
C2_Witness == RefusalReturned /\ Len(documents) = 0 /\ Len(index) = 0

\* C3 (as claimed): when the generation capability raised during query(), the
\* Response returned has confidence 0.
C3_GenerationErrorZeroConfidence ==
    (Returned /\ genFailed) => response[1].confidence.num = 0

\* C4 (as claimed): a query that reached the generation phase returns a
\* Response; when the generation capability failed, its answer reports the
\* generation error and its sources are the retrieved fragments, all of them,
\* in retrieval order.
C4_GenerationPathReturnsResponse ==
    (qpc \in {"done", "raised"} /\ calls # <<"search">>) =>
        /\ Returned
        /\ genFailed =>
              /\ response[1].answer[1] = ErrorPrefix
              /\ Len(response[1].sources) = Len(retrieved)
              /\ \A i \in 1..Len(retrieved) :
                    /\ response[1].sources[i].title = retrieved[i].doc.title
                    /\ response[1].sources[i].excerpt = retrieved[i].doc.content
                    /\ response[1].sources[i].relevance_score = retrieved[i].score

SaysEducationalPurposes(text) ==
    \E i \in 1..Len(text) : text[i] \in {"educational purposes", "Educational Purposes"}

\* C5: the answer of every Response returned on the generation path says
\* "educational purposes"; it is the generated text followed by the canonical
\* disclaimer when the generated text does not say it in any letter case, and
\* the generated text itself, unmodified, when it does (so never two
\* disclaimers).
C5_DisclaimerPresentOnce ==
    (Returned /\ calls # <<"search">>) =>
        /\ SaysEducationalPurposes(response[1].answer)
        /\ IF SaysEducationalPurposes(answer)
           THEN response[1].answer = answer
           ELSE response[1].answer = answer \o Disclaimer

\* A Response whose generated text carried the phrase in another letter case.
C5_Witness ==
    /\ Returned
    /\ calls # <<"search">>
    /\ \E i \in 1..Len(answer) : answer[i] = "Educational Purposes"
    /\ response[1].answer = answer

(***************************************************************************)
(* Properties of _calculate_confidence.                                    *)
(***************************************************************************)
\* C6 (as claimed): the confidence _calculate_confidence returns lies in [0,1]
\* for every list of retrieval scores in [-1,1], answer text and threshold.
C6_ConfidenceInUnitInterval ==
    qpc = "scored" => (confidence.num >= 0 /\ confidence.num <= One * confidence.den)

Cites(text) == \E i \in 1..Len(text) : text[i] \in {"[DOC_1]", "[DOC_9]"}

Hedges(text) ==
    \E i \in 1..Len(text) :
        text[i] \in {"don't have enough", "cannot answer", "Cannot Answer",
                     "insufficient information", "not enough verified"}

\* The value the claim states, times 100 * Len(retrieved), in hundredths.
ClaimedRaw ==
    SumSeq(Scores(retrieved))
        * (IF Cites(answer) THEN 11 ELSE 10)
        * (IF Hedges(answer) /\ SumSeq(Scores(retrieved)) < confidence_threshold * Len(retrieved)
           THEN 7 ELSE 10)

\* C7: the confidence is 0 for no results; otherwise it is the mean score, times
\* 1.1 iff the answer holds the marker "[DOC_" (whatever document it names),
\* times 0.7 iff the lower-cased answer holds an uncertainty phrase and the mean
\* is below confidence_threshold, capped at 1.0.
C7_ConfidenceFormula ==
    qpc = "scored" =>
        IF Len(retrieved) = 0 THEN confidence.num = 0
        ELSE IF ClaimedRaw > One * 100 * Len(retrieved)
             THEN confidence.num = One * confidence.den
             ELSE confidence.num * 100 * Len(retrieved) = ClaimedRaw * confidence.den

\* A score computed with both factors applied: a cited, hedging answer on a
\* mean below the threshold.
C7_Witness ==
    /\ qpc = "scored"
    /\ Len(retrieved) = 2
    /\ Cites(answer) /\ Hedges(answer)
    /\ SumSeq(Scores(retrieved)) > 0
    /\ SumSeq(Scores(retrieved)) < confidence_threshold * Len(retrieved)
    /\ confidence.num = SumSeq(Scores(retrieved)) * 77

C9_SearchSeesWholeStates ==
    rpc = "done" =>
        /\ \E v \in views :
              rresult = SearchOn(v.index, v.documents, rargs[1].query, rargs[1].top_k,
                                 rargs[1].threshold)
        /\ \A i \in 1..Len(rresult) :
              rresult[i].score = Score(Embed(rresult[i].doc.content), Embed(rargs[1].query))

\* C10 (as claimed): the chunk_ids stored in the index are pairwise distinct.
C10_ChunkIdsDistinct ==
    \A i, j \in 1..Len(documents) :
        i # j => documents[i].chunk_id # documents[j].chunk_id

(***************************************************************************)
(* Properties of the store across add_documents, save, load and            *)
(* construction.                                                           *)
(***************************************************************************)
\* C11: a call of add_documents(D) that returns leaves the entries the store
\* held (chunk records and vectors) unchanged and in place, and appends one
\* entry per chunk of D, in chunking order, whether or not the store already
\* holds the same chunk.
C11_AddAppendsOnly ==
    [][(adds' = adds + 1 /\ storeErr' = "none") =>
          /\ Len(documents') >= Len(documents)
          /\ Len(index') >= Len(index)
          /\ SubSeq(documents', 1, Len(documents)) = documents
          /\ SubSeq(index', 1, Len(index)) = index
          /\ \E batch \in LifeBatches :
                LET new == ChunkDocuments(batch, chunk_size, chunk_overlap)
                IN  /\ Len(documents') = Len(documents) + Len(new)
                    /\ Len(index') = Len(index) + Len(new)
                    /\ \A i \in 1..Len(new) :
                          /\ documents'[Len(documents) + i] = new[i]
                          /\ index'[Len(index) + i] = Embed(new[i].content)]_vars

\* A store that holds the same chunk twice after its second add_documents.
C11_Witness ==
    /\ op = "add_documents"
    /\ storeErr = "none"
    /\ adds = 2
    /\ \E i, j \in 1..Len(documents) :
          i < j /\ documents[i] = documents[j] /\ index[i] = index[j]

\* C12: what save writes, load reads back as it was: the store a load builds
\* from the directory holds the chunk records and the vectors of the saving
\* store, in the same order, so every search (any query, top_k and threshold;
\* compared on the saves that follow an add_documents) answers on it as on the
\* saving store; and a load that returns installs exactly what the directory
\* holds.
C12_SaveLoadRoundTrip ==
    [][/\ op' = "save" =>
             LET vecs == LoadedIndex(disk')
                 docs == LoadedDocuments(disk')
             IN  /\ vecs = index
                 /\ docs = documents
                 /\ disk'.faiss[1].d = index_d
                 /\ (dimension = index_d /\ op = "add_documents") =>
                       \A q \in Questions, n \in {1, 3}, t \in {MinusInfinity, 0, 80} :
                           SearchOn(vecs, docs, q, n, t) = SearchOn(index, documents, q, n, t)
       /\ (op' = "load" /\ storeErr' = "none") =>
             /\ index' = LoadedIndex(disk)
             /\ documents' = LoadedDocuments(disk)
             /\ index_d' = disk.faiss[1].d]_vars

\* A store filled by load, from a directory saved with several entries, that
\* answers a search.
C12_Witness ==
    /\ op = "load"
    /\ storeErr = "none"
    /\ dimension = index_d
    /\ Len(documents) >= 3
    /\ Len(index) = Len(documents)
    /\ disk.faiss[1].ntotal = Len(index)
    /\ \E q \in Questions : Len(SearchOn(index, documents, q, 2, 0)) = 2

\* C13 (as claimed): after a load that returned, get_stats() reports the
\* dimension, chunk_size and chunk_overlap the saved index was built with (the
\* ones save recorded in the directory), whatever the loading store was
\* constructed with.
C13_StatsReportBuildConfig ==
    (op = "load" /\ storeErr = "none" /\ disk.config # <<>>) =>
        /\ GetStats.dimension = disk.config[1].dimension
        /\ GetStats.chunk_size = disk.config[1].chunk_size
        /\ GetStats.chunk_overlap = disk.config[1].chunk_overlap

\* C14 (as claimed): in every state of a store the index and every vector it
\* holds have the dimension the store declares and get_stats() reports.
C14_IndexDimensionFixed ==
    /\ index_d = GetStats.dimension
    /\ \A i \in 1..Len(index) : Len(index[i]) = GetStats.dimension

\* C15 (as claimed): no store exists whose chunk_overlap is not below its
\* chunk_size, so none reaches add_documents.
C15_OverlapBelowChunkSize == chunk_overlap < chunk_size

\* C16: a load from a directory that does not exist, or that lacks a readable
\* index file or documents file, ends with an exception; a load that returns
\* has installed the entries the directory holds, never an index it made up.
C16_LoadFailsOnMissingFiles ==
    op = "load" =>
        /\ (~disk.dir \/ disk.faiss = <<>> \/ disk.docs = <<>>) => storeErr # "none"
        /\ storeErr = "none" =>
              /\ disk.dir /\ disk.faiss # <<>> /\ disk.docs # <<>>
              /\ index = LoadedIndex(disk)
              /\ documents = LoadedDocuments(disk)

\* A load that raised on a directory holding the index file but no documents file.
C16_Witness ==
    /\ op = "load"
    /\ disk.dir
    /\ disk.faiss # <<>>
    /\ disk.docs = <<>>
    /\ storeErr = "FileNotFoundError"

(***************************************************************************)
(* Properties of the course of query().                                    *)
(***************************************************************************)
\* C17: a query whose embedding call fails ends with the exception: it
\* produces no Response and calls nothing after search, it leaves the index,
\* the documents and the settings of the pipeline as they were, and when it
\* has ended the pipeline is in the state it was in before the query.
C17_EmbeddingFailureAbortsQuery ==
    [][/\ qpc' = "search_raised" =>
             /\ response' = <<>>
             /\ calls' = <<"search">>
             /\ UNCHANGED <<storeVars, confidence_threshold>>
       /\ qpc = "search_raised" =>
             /\ qpc' = "idle"
             /\ response' = <<>> /\ calls' = <<>> /\ retrieved' = <<>> /\ answer' = <<>>
             /\ question' = <<>> /\ k' = 0 /\ genFailed' = FALSE /\ genMs' = 0
             /\ confidence' = [num |-> 0, den |-> 1]
             /\ UNCHANGED <<storeVars, confidence_threshold>>]_vars

\* A query that ended with the exception of the embedding call, on a store
\* that holds documents.
C17_Witness ==
    /\ qpc = "search_raised"
    /\ Len(documents) > 0
    /\ Len(index) = Len(documents)
    /\ response = <<>>

\* The calls of a query that runs to the Response, in order.
FullPath == <<"search", "generate", "calculate_confidence", "QueryResponse">>

\* C18: the calls a query has made are, in order, a prefix of: search,
\* generation, confidence scoring, assembly of the Response; a query that
\* returned the refusal made the search only, and any other returned query made
\* each of the four calls exactly once (one generation call, whether it gave
\* an answer or an error text).
C18_LifecycleOrder ==
    /\ Len(calls) <= Len(FullPath)
    /\ calls = SubSeq(FullPath, 1, Len(calls))
    /\ qpc = "idle" => calls = <<>>
    /\ qpc \in {"retrieved", "search_raised"} => calls = <<"search">>
    /\ qpc = "generated" => calls = SubSeq(FullPath, 1, 2)
    /\ qpc = "scored" => calls = SubSeq(FullPath, 1, 3)
    /\ qpc = "raised" => calls = FullPath
    /\ Returned => calls = (IF IsRefusal(response[1]) THEN <<"search">> ELSE FullPath)

\* A returned Response whose generation call failed, made once.
C18_Witness ==
    /\ Returned
    /\ genFailed
    /\ calls = FullPath
    /\ response[1].answer[1] = ErrorPrefix

\* C19: the confidence of every Response returned on the generation path is at
\* least the mean of the retrieval scores of that query and at most 1,
\* whatever the generated text.
C19_ConfidenceAtLeastBase ==
    (Returned /\ calls = FullPath) =>
        LET c == response[1].confidence
        IN  /\ c.num * Len(retrieved) >= SumSeq(Scores(retrieved)) * c.den
            /\ c.num <= One * c.den

\* A Response whose answer admits uncertainty and is not cited, returned with
\* exactly the mean retrieval score.
C19_Witness ==
    /\ Returned
    /\ calls = FullPath
    /\ Hedges(answer)
    /\ ~Cites(answer)
    /\ SumSeq(Scores(retrieved)) > 0
    /\ response[1].confidence.num * Len(retrieved)
           = SumSeq(Scores(retrieved)) * response[1].confidence.den

\* C20: the chunk records of every document stand together in the store, in
\* order: their chunk_index values are 0, 1, ..., total_chunks - 1 with no gap
\* and no repeat, they carry the same total_chunks and doc_id, and the chunk_id
\* of each is made of the doc_id and its chunk_index.
C20_ChunkIndexContiguous ==
    \A p \in 1..Len(documents) :
        LET c     == documents[p]
            first == p - c.chunk_index
        IN  /\ c.chunk_index \in 0..(c.total_chunks - 1)
            /\ c.chunk_id = ChunkId(c.doc_id, c.chunk_index)
            /\ first >= 1
            /\ first + c.total_chunks - 1 <= Len(documents)
            /\ \A j \in 0..(c.total_chunks - 1) :
                  /\ documents[first + j].chunk_index = j
                  /\ documents[first + j].doc_id = c.doc_id
                  /\ documents[first + j].total_chunks = c.total_chunks

\* A store that holds the last of three chunks of a document, followed by
\* the chunks of another add.
C20_Witness ==
    \E p \in 1..Len(documents) :
        /\ documents[p].total_chunks = 3
        /\ documents[p].chunk_index = 2
        /\ p < Len(documents)


(***************************************************************************)
(* Properties of the chunker.                                              *)
(***************************************************************************)
Fragments(r) == [i \in 1..Len(r.chunks) |-> r.chunks[i].content]

OccursAt(text, f, p) == p + Len(f) - 1 <= Len(text) /\ SubSeq(text, p, p + Len(f) - 1) = f

\* Whether the fragments can be found in the text at positions that never go
\* back (a fragment stripped of its leading space may start where the next one does)
RECURSIVE InPositionOrder(_, _, _)
InPositionOrder(text, frs, from) ==
    IF frs = <<>> THEN TRUE
    ELSE /\ \E p \in from..Len(text) : OccursAt(text, Head(frs), p)
         /\ InPositionOrder(text, Tail(frs),
                (CHOOSE p \in from..Len(text) :
                    /\ OccursAt(text, Head(frs), p)
                    /\ \A q \in from..(p - 1) : ~OccursAt(text, Head(frs), q)))

\* C21: every fragment _chunk_documents produces has at most chunk_size
\* characters unless it is a single token (one character) that cannot be
\* divided; the fragments of a document are in position order; an empty text
\* yields no fragment.
C21_FragmentsBoundedAndOrdered ==
    cres # <<>> =>
        LET r == cres[1]
            text == r.documents[1].content
        IN  /\ \A i \in 1..Len(r.chunks) :
                   \/ Len(r.chunks[i].content) <= r.chunk_size
                   \/ Len(r.chunks[i].content) = 1
            /\ InPositionOrder(text, Fragments(r), 1)
            /\ text = <<>> => r.chunks = <<>>

\* A text of four characters cut into overlapping fragments of chunk_size 3.
C21_Witness ==
    /\ cres # <<>>
    /\ Len(cres[1].documents[1].content) = 4
    /\ cres[1].chunk_size = 3
    /\ cres[1].chunk_overlap = 1
    /\ Len(cres[1].chunks) = 2
    /\ Len(cres[1].chunks[1].content) = 3

\* Whether the text is the first fragments (acc) followed by the other
\* fragments (frs), each without a prefix of at most `overlap` characters that
\* repeats the end of what precedes it
RECURSIVE Reassembles(_, _, _, _)
Reassembles(text, acc, frs, overlap) ==
    IF frs = <<>> THEN acc = text
    ELSE \E o \in 0..Min(overlap, Min(Len(acc), Len(Head(frs)))) :
            /\ SubSeq(acc, Len(acc) - o + 1, Len(acc)) = SubSeq(Head(frs), 1, o)
            /\ Reassembles(text, acc \o SubSeq(Head(frs), o + 1, Len(Head(frs))), Tail(frs), overlap)

\* C22: the fragments of a document, concatenated in order with the
\* overlapping prefixes removed, are the text of the document.
C22_FragmentsReassemble ==
    cres # <<>> =>
        Reassembles(cres[1].documents[1].content, <<>>, Fragments(cres[1]), cres[1].chunk_overlap)

\* The text "a b" cut with chunk_size 2 and chunk_overlap 0 into "a" and "b":
\* the space between them is in no fragment.
C22_SpaceLost ==
    /\ cres # <<>>
    /\ cres[1].documents[1].content = <<"a", " ", "b">>
    /\ cres[1].chunk_size = 2
    /\ cres[1].chunk_overlap = 0
    /\ Fragments(cres[1]) = << <<"a">>, <<"b">> >>

RECURSIVE FragmentsAdded(_)
FragmentsAdded(batches) ==
    IF batches = <<>> THEN <<>>
    ELSE ChunkDocuments(Head(batches), QdrantChunkSize, QdrantChunkOverlap)
             \o FragmentsAdded(Tail(batches))

\* C23: after any sequence of add_documents calls the Qdrant collection holds
\* one point per fragment ever added, as a VectorStore does after the same
\* calls: no point of an earlier call is replaced by a later call.
C23_QdrantKeepsEveryFragment ==
    /\ Len(collection) = Len(FragmentsAdded(qcalls))
    /\ \A i \in 1..Len(FragmentsAdded(qcalls)) :
           \E j \in 1..Len(collection) : collection[j].payload = FragmentsAdded(qcalls)[i]

\* add_documents([DocAnemia]) then add_documents([DocAsthma, DocPubMed]): the
\* collection holds two points and none of them is the fragment of DocAnemia.
C23_EarlierPointReplaced ==
    /\ qcalls = << <<DocAnemia>>, <<DocAsthma, DocPubMed>> >>
    /\ Len(collection) = 2
    /\ \A j \in 1..Len(collection) : collection[j].payload.doc_id # DocAnemia.doc_id


(***************************************************************************)
(* Properties of POST /query.                                              *)
(***************************************************************************)
Answered == http # <<>> /\ http[1].status = "200"

\* C25: the body of every 200 has an answer and a list contexts of at most
\* top_k texts; while the result of query() is at hand, contexts[i] is the
\* excerpt of the i-th retrieved fragment, whether or not sources are
\* included, and contexts is empty when the pipeline refused.
C25_ContextsAreExcerpts ==
    Answered =>
        LET body == http[1].body[1]
            p == http[1].payload
        IN  /\ {"answer", "contexts"} \subseteq DOMAIN body
            /\ Len(body.contexts) <= RequestTopK(p)
            /\ qpc = "done" =>
                   /\ body.answer = response[1].answer
                   /\ IF IsRefusal(response[1])
                      THEN body.contexts = <<>>
                      ELSE /\ Len(body.contexts) = Len(retrieved)
                           /\ \A i \in 1..Len(retrieved) :
                                  body.contexts[i] = Excerpt(retrieved[i].doc.content)

\* A 200 for a request with include_sources false and top_k 2 whose contexts
\* are the excerpts of two retrieved fragments.
C25_Witness ==
    /\ Answered
    /\ qpc = "done"
    /\ ~http[1].payload.include_sources
    /\ http[1].payload.top_k = <<2>>
    /\ http[1].body[1].sources = <<>>
    /\ Len(http[1].body[1].contexts) = 2

\* A payload of the legacy format: question of at least 3 characters, a top_k
\* in range, include_sources, and no query
Legacy(p) ==
    /\ p.query = <<>>
    /\ p.question # <<>> /\ Len(p.question[1]) >= MinQueryLen
    /\ p.top_k # <<>> /\ p.top_k[1] \in 1..RequestTopKMax

\* C26: a payload of the legacy format is accepted as a payload with query
\* is: it is never answered 422.
C26_LegacyPayloadAccepted ==
    (http # <<>> /\ Legacy(http[1].payload)) => http[1].status # "422"

\* The payload {"question": "aab", "top_k": 1, "include_sources": true}
\* answered 422.
C26_LegacyRejected ==
    /\ http # <<>>
    /\ http[1].payload = [query |-> <<>>, question |-> << <<"a", "a", "b">> >>,
                          top_k |-> <<1>>, include_sources |-> TRUE]
    /\ http[1].status = "422"


(***************************************************************************)
(* Properties of query(), continued.                                       *)
(***************************************************************************)
OnGenerationPath == Returned /\ \E i \in 1..Len(calls) : calls[i] = "generate"

\* C27: in every Response of the generation path the i-th source is labelled
\* DOC_i and is the fragment, with the score, that the context block of the
\* prompt labels DOC_i; the sources are in retrieval order, by non-increasing
\* score; there is one source per retrieved result and at most k of them.
C27_SourcesMatchContext ==
    OnGenerationPath =>
        LET sources == response[1].sources
        IN  /\ Len(sources) = Len(retrieved)
            /\ Len(sources) = Len(context)
            /\ Len(sources) <= k
            /\ \A i \in 1..Len(sources) :
                   /\ sources[i].doc_id = <<"DOC_", i>>
                   /\ context[i].label = sources[i].doc_id
                   /\ context[i].title = sources[i].title
                   /\ context[i].year = sources[i].year
                   /\ context[i].score = sources[i].relevance_score
                   /\ Excerpt(context[i].content) = sources[i].excerpt
                   /\ context[i].content = retrieved[i].doc.content
            /\ \A i \in 1..(Len(sources) - 1) :
                   sources[i].relevance_score >= sources[i + 1].relevance_score

\* A Response with two sources of different scores.
C27_Witness ==
    /\ OnGenerationPath
    /\ Len(response[1].sources) = 2
    /\ response[1].sources[1].relevance_score > response[1].sources[2].relevance_score
    /\ response[1].sources[1].excerpt # response[1].sources[2].excerpt

\* C28: every score that reaches the sufficiency check and the scorer is at
\* least confidence_threshold; the check refuses exactly when nothing was
\* retrieved; no Response of query() has the uncertainty penalty applied.
C28_GateSeesOnlyPassingScores ==
    /\ \A i \in 1..Len(retrieved) : retrieved[i].score >= confidence_threshold
    /\ qpc = "retrieved" => (Insufficient(retrieved, confidence_threshold) <=> retrieved = <<>>)
    /\ OnGenerationPath =>
           /\ ~(AdmitsUncertainty(answer) /\ AvgBelow(retrieved, confidence_threshold))
           /\ response[1].confidence =
                  CapAtOne([num |-> SumSeq(Scores(retrieved))
                                        * (IF HasCitations(answer) THEN 11 ELSE 10) * 10,
                            den |-> Len(retrieved) * 100])

\* A Response whose answer cites and admits uncertainty, on a result whose
\* scores all equal the threshold: the mean is not below it.
C28_Witness ==
    /\ OnGenerationPath
    /\ AdmitsUncertainty(answer)
    /\ HasCitations(answer)
    /\ retrieved # <<>>
    /\ \A i \in 1..Len(retrieved) : retrieved[i].score = confidence_threshold

(***************************************************************************)
(* Properties of the store, continued.                                     *)
(***************************************************************************)
\* C29: after any calls of add_documents, save and load, also calls that
\* raise, the index holds as many vectors as there are chunk records, the i-th
\* vector is the embedding of the i-th record (for a store whose index has the
\* dimension of its embedding model), and get_stats().total_chunks is the
\* number of vectors.
C29_IndexMatchesDocuments ==
    /\ Len(index) = Len(documents)
    /\ GetStats.total_chunks = Len(index)
    /\ dimension = index_d =>
           \A i \in 1..Min(Len(index), Len(documents)) : index[i] = Embed(documents[i].content)

\* A load that raised for the missing documents.pkl and left an index of
\* vectors with no chunk records.
C29_IndexWithoutDocuments ==
    /\ op = "load"
    /\ storeErr = "FileNotFoundError"
    /\ disk.dir
    /\ Len(index) > 0
    /\ documents = <<>>
    /\ GetStats.total_chunks = 0

\* C30: a search with top_k above the number n >= 1 of entries and a threshold
\* of -1 or more returns at most n results, each a different stored entry with
\* its own score: no padding slot becomes a result.
C30_PaddingNeverReturned ==
    ( /\ sres # <<>>
      /\ Len(documents) >= 1
      /\ sres[1].top_k > Len(documents)
      /\ sres[1].threshold >= -One )
    => /\ ~sres[1].raised
       /\ Len(sres[1].results) <= Len(documents)
       /\ \E f \in [1..Len(sres[1].results) -> 1..Len(documents)] :
              /\ \A i, j \in 1..Len(sres[1].results) : f[i] = f[j] => i = j
              /\ \A i \in 1..Len(sres[1].results) :
                     /\ sres[1].results[i].doc = documents[f[i]]
                     /\ sres[1].results[i].score = Score(index[f[i]], Embed(sres[1].query))

\* A search with top_k 3 and threshold -1.0 on a store of one entry, which
\* returns that entry once.
C30_Witness ==
    /\ sres # <<>>
    /\ Len(documents) = 1
    /\ sres[1].top_k = 3
    /\ sres[1].threshold = -One
    /\ Len(sres[1].results) = 1

====
